---- MODULE Spec2Model ----
(***************************************************************************)
(* Model of python/examples/dipole_in_vacuum_cyl_nonaxisymmetric.py: the   *)
(* main block's mode loop, the helper functions it calls and the output    *)
(* stage.                                                                  *)
(*                                                                         *)
(* Numbers.  Complex numbers are pairs <<re, im>> of integers.  Real       *)
(* quantities live on an integer grid: np.sqrt rounds its exact result to  *)
(* the nearest grid value (as IEEE sqrt rounds to the nearest float),      *)
(* np.sin is a fixed-point value with SIN_SCALE steps per unit, angles are *)
(* counted in steps of dtheta and lengths in units of 0.5e6 um.            *)
(* A ratio (power_decay, the normalised flux) is kept as the pair          *)
(* <<numerator, denominator>>; a denominator 0 is numpy's nan/inf.         *)
(*                                                                         *)
(* Arrays.  numpy arrays are objects: heap[a] is the content of the array  *)
(* with address a and the program variables e_field_total, h_field_total,  *)
(* e_field and h_field hold addresses, so that the in-place += of the main *)
(* block and the allocation in get_farfields are modelled as they are.     *)
(***************************************************************************)
EXTENDS Integers, Sequences, FiniteSets, TLC

\* ---------------------------------------------------------------- bounds
\* The source has NUM_FARFIELD_PTS = 50; the model keeps the name and
\* scales the number of far-field points down.
NUM_FARFIELD_PTS == 3
\* The loop of the source has no bound on m; the model stops taking the
\* "m += 1" branch at MaxM.
MaxM == 2
\* Fixed-point scale of np.sin: grid steps per unit.
SIN_SCALE == 10

\* ------------------------------------------------------ program constants
WAVELENGTH_UM == 1
\* POWER_DECAY_THRESHOLD = 1e-4 as the ratio 1 / 10000.
POWER_DECAY_THRESHOLD_NUM == 1
POWER_DECAY_THRESHOLD_DEN == 10000
DEBUG_OUTPUT == TRUE

\* FARFIELD_RADIUS_UM = 1e6 * WAVELENGTH_UM, counted in units of half a
\* million um so that the factor FARFIELD_RADIUS_UM**2 stays visible (4) and
\* fits 32 bit integers.
FARFIELD_RADIUS_UM == 2 * WAVELENGTH_UM

Points == 0 .. (NUM_FARFIELD_PTS - 1)

\* ------------------------------------------------------- complex numbers
CZero == <<0, 0>>
CAdd(a, b) == <<a[1] + b[1], a[2] + b[2]>>
CSub(a, b) == <<a[1] - b[1], a[2] - b[2]>>
CMul(a, b) == <<a[1] * b[1] - a[2] * b[2], a[1] * b[2] + a[2] * b[1]>>
CConj(a) == <<a[1], 0 - a[2]>>
CReal(a) == a[1]
CScale(k, a) == <<k * a[1], k * a[2]>>

\* (mutant) an allocation with one row too many
Zeros_OffByOne ==
    [n \in 0 .. NUM_FARFIELD_PTS |-> <<CZero, CZero, CZero>>]

\* np.zeros((NUM_FARFIELD_PTS, 3), dtype=np.complex128)
Zeros == [n \in Points |-> <<CZero, CZero, CZero>>]

\* element-wise a + b of two (NUM_FARFIELD_PTS, 3) arrays
ArrAdd(a, b) == [n \in DOMAIN a |-> [j \in 1..3 |-> CAdd(a[n][j], b[n][j])]]

\* np.sqrt on the grid: the grid value nearest to the exact root (exact when
\* x is a perfect square).
RECURSIVE SqrtFloor(_, _)
SqrtFloor(x, r) == IF (r + 1) * (r + 1) > x THEN r ELSE SqrtFloor(x, r + 1)

Sqrt(x) ==
    LET r == SqrtFloor(x, 0)
    IN  IF x - r * r <= r THEN r ELSE r + 1

Abs(x) == IF x < 0 THEN 0 - x ELSE x

\* np.sqrt(np.square(a) + np.square(b)).  When one of the two is 0 the root
\* of the square of the other is its absolute value, exactly; that case is
\* evaluated without squaring, which keeps strong fields inside TLC's 32 bit
\* integers.
SqrtOfSquares(a, b) ==
    IF a = 0 THEN Abs(b)
    ELSE IF b = 0 THEN Abs(a)
    ELSE Sqrt(a * a + b * b)

\* np.max / np.sum of a 1D array indexed by Points
RECURSIVE SumUpTo(_, _)
SumUpTo(f, n) == IF n < 0 THEN 0 ELSE f[n] + SumUpTo(f, n - 1)

Sum(f) == SumUpTo(f, NUM_FARFIELD_PTS - 1)

Max2(a, b) == IF a > b THEN a ELSE b

RECURSIVE MaxUpTo(_, _)
MaxUpTo(f, n) == IF n = 0 THEN f[0] ELSE Max2(f[n], MaxUpTo(f, n - 1))

ArrMax(f) == MaxUpTo(f, NUM_FARFIELD_PTS - 1)

\* polar_rad = np.linspace(0, 0.5 * math.pi, NUM_FARFIELD_PTS), in steps of
\* dtheta = (pi / 2) / (NUM_FARFIELD_PTS - 1)
polar_rad == [n \in Points |-> n]

\* np.sin(polar_rad)[n]: the angle is t = polar_rad[n] / (2
\* (NUM_FARFIELD_PTS - 1)) of pi; the fixed-point sine is Bhaskara's
\* rational approximation 16 t (1 - t) / (5 - 4 t (1 - t)), exact at the
\* pole (0) and at the equator (1).
SinPolar(n) ==
    LET k == 2 * (NUM_FARFIELD_PTS - 1)
        p == polar_rad[n] * (k - polar_rad[n])
    IN  (SIN_SCALE * 16 * p) \div (5 * k * k - 4 * p)

\* ------------------------------------------------------ radiation_pattern
flux_x(e_field, h_field) ==
    [n \in DOMAIN e_field |->
        CReal(CSub(CMul(e_field[n][2], h_field[n][3]),
                   CMul(e_field[n][3], h_field[n][2])))]

\* (mutant) the second product takes H_phi again, not H_r
flux_z_WrongColumn(e_field, h_field) ==
    [n \in DOMAIN e_field |->
        CReal(CSub(CMul(e_field[n][1], h_field[n][2]),
                   CMul(e_field[n][2], h_field[n][2])))]

flux_z(e_field, h_field) ==
    [n \in DOMAIN e_field |->
        CReal(CSub(CMul(e_field[n][1], h_field[n][2]),
                   CMul(e_field[n][2], h_field[n][1])))]

radiation_pattern(e_field, h_field) ==
    LET fx == flux_x(e_field, h_field)
        fz == flux_z(e_field, h_field)
    IN  [n \in DOMAIN e_field |-> SqrtOfSquares(fx[n], fz[n])]

\* ---------------------------------------------------- flux_from_farfields
\* dtheta is one angular step; dphi = 2 pi is 4 (NUM_FARFIELD_PTS - 1) steps.
dphi == 4 * (NUM_FARFIELD_PTS - 1)
dtheta == 1

flux_from_farfields(e_field, h_field) ==
    LET dipole_radiation_pattern_ == radiation_pattern(e_field, h_field)
    IN  Sum([n \in Points |-> dipole_radiation_pattern_[n] * SinPolar(n)])
          * FARFIELD_RADIUS_UM * FARFIELD_RADIUS_UM * dtheta * dphi


\* ------------------------------------------------------ the external solver
\* What one run of the solver (mp.Simulation ... sim.run) leaves behind is
\* not decided by the script: a run ends with some field amplitude.
SimAmplitudes == {0, 1, 2, 200}

\* the values of args.dipole_pos_r the script is started with (the position
\* is only handed on to the solver)
DipolePositions == {1}

\* sim.get_farfield(n2f_mon, point n): (Er, Ep, Ez, Hr, Hp, Hz) at far-field
\* point n.  E lies along r and H along phi at the even points, E along phi
\* and H along z at the odd ones; modes m < 0 have the conjugate phase.
get_farfield(sim, n) ==
    LET c == CScale(sim.amp, IF sim.m < 0 THEN <<1, -1>> ELSE <<1, 1>>)
    IN  IF n % 2 = 0
        THEN <<c, CZero, CZero, CZero, c, CZero>>
        ELSE <<CZero, c, CZero, CZero, CZero, c>>

\* get_farfields: the contents of the two arrays it fills and returns
get_farfields(sim) ==
    [e_field |-> [n \in Points |->
                    [j \in 1..3 |-> CConj(get_farfield(sim, n)[j])]],
     h_field |-> [n \in Points |->
                    [j \in 1..3 |-> get_farfield(sim, n)[j + 3]]]]

\* --------------------------------------------------------------- the state
VARIABLES
    pc,                 \* the statement of the main block to execute next
    dipole_pos_r,       \* args.dipole_pos_r
    am_master,          \* mp.am_master() of this process
    heap,               \* the numpy arrays allocated so far, by address
    e_field_total,      \* address of the array bound to e_field_total
    h_field_total,      \* address of the array bound to h_field_total
    e_field,            \* address bound to e_field (0: not yet bound)
    h_field,            \* address bound to h_field (0: not yet bound)
    flux_max,
    m,
    flux,               \* (0 until the first assignment in line 245)
    power_decay,        \* <<flux, flux_max>>, the ratio flux / flux_max
    sims,               \* the solver runs so far, with what each returned
    stdout,             \* the "power_decay:" lines printed so far
    dipole_radiation_pattern,
    dipole_radiation_pattern_scaled,
    plotted,            \* the curves handed to ax.plot, once per call
    files,              \* the files written so far: name -> content
    arg_e_field,        \* a call of radiation_pattern on its own: the
    arg_h_field,        \*   two arguments
    flux_r              \*   and the array it returns

vars == <<pc, dipole_pos_r, am_master, heap, e_field_total, h_field_total,
          e_field, h_field, flux_max, m, flux, power_decay, sims, stdout,
          dipole_radiation_pattern, dipole_radiation_pattern_scaled,
          plotted, files, arg_e_field, arg_h_field, flux_r>>

call_vars == <<arg_e_field, arg_h_field, flux_r>>

\* a name of the main block that is not bound yet
Unbound == <<>>

\* the main block before its first statement, started with pos
MainInit(pos, master) ==
    /\ dipole_pos_r = pos
    /\ am_master = master
    /\ heap = <<Zeros, Zeros>>
    /\ e_field_total = 1
    /\ h_field_total = 2
    /\ e_field = 0
    /\ h_field = 0
    /\ flux_max = 0
    /\ m = 0
    /\ flux = 0
    /\ power_decay = Unbound
    /\ sims = <<>>
    /\ stdout = <<>>
    /\ dipole_radiation_pattern = Unbound
    /\ dipole_radiation_pattern_scaled = Unbound
    /\ plotted = <<>>
    /\ files = <<>>

Init ==
    /\ pc = "run_pos"
    /\ \E pos \in DipolePositions, master \in BOOLEAN : MainInit(pos, master)
    /\ arg_e_field = Unbound
    /\ arg_h_field = Unbound
    /\ flux_r = Unbound

\* (mutant) get_farfields fills and returns the same two arrays on every call
dipole_in_vacuum_Reuse(pos, mode, amp) ==
    LET sim == [m |-> mode, dipole_pos_r |-> pos, amp |-> amp]
        ff  == get_farfields(sim)
    IN  /\ heap' = IF Len(heap) >= 4
                   THEN [heap EXCEPT ![3] = ff.e_field, ![4] = ff.h_field]
                   ELSE heap \o <<ff.e_field, ff.h_field>>
        /\ e_field' = 3
        /\ h_field' = 4
        /\ sims' = Append(sims, [sim |-> sim, e_addr |-> 3, h_addr |-> 4,
                                 e_field |-> ff.e_field,
                                 h_field |-> ff.h_field])
        /\ files' = IF DEBUG_OUTPUT /\ am_master
                    THEN Append(files,
                                [name |-> "dipole_in_vacuum_cyl_layout.png",
                                 content |-> sim])
                    ELSE files

\* dipole_in_vacuum(pos, mode): one solver run with an outcome of amplitude
\* amp; the layout figure is saved by the master, and get_farfields puts
\* the far fields into two newly allocated arrays, whose addresses are the
\* result.
dipole_in_vacuum(pos, mode, amp) ==
    LET sim == [m |-> mode, dipole_pos_r |-> pos, amp |-> amp]
        ff  == get_farfields(sim)
        ea  == Len(heap) + 1
        ha  == Len(heap) + 2
    IN  /\ heap' = heap \o <<ff.e_field, ff.h_field>>
        /\ e_field' = ea
        /\ h_field' = ha
        /\ sims' = Append(sims, [sim |-> sim, e_addr |-> ea, h_addr |-> ha,
                                 e_field |-> ff.e_field,
                                 h_field |-> ff.h_field])
        /\ files' = IF DEBUG_OUTPUT /\ am_master
                    THEN Append(files,
                                [name |-> "dipole_in_vacuum_cyl_layout.png",
                                 content |-> sim])
                    ELSE files

\* a += b on numpy arrays: the array at address a is updated in place
IAdd(a, b) == [heap EXCEPT ![a] = ArrAdd(heap[a], heap[b])]


\* r < tn / td for a ratio r = <<num, den>>; a comparison with nan (den = 0)
\* is False.  Written with a division so that no product overflows.
RatioLess(r, tn, td) == r[2] > 0 /\ r[1] <= (tn * r[2] - 1) \div td

\* np.square(np.cos(polar_rad))[n] in units of 1 / SIN_SCALE^2
CosSqPolar(n) ==
    SIN_SCALE * SIN_SCALE
      - SinPolar(NUM_FARFIELD_PTS - 1 - n) * SinPolar(NUM_FARFIELD_PTS - 1 - n)

\* plot_radiation_pattern(radial_flux): the two curves drawn, and the figure
\* file the master writes.  (The relative error is only printed.)
plot_radiation_pattern(radial_flux) ==
    LET normalized_radial_flux ==
            [n \in Points |-> <<radial_flux[n], ArrMax(radial_flux)>>]
        dipole_radial_flux == [n \in Points |-> CosSqPolar(n)]
        fig == [Meep |-> normalized_radial_flux, cos2 |-> dipole_radial_flux]
    IN  /\ plotted' = Append(plotted, fig)
        /\ files' = IF am_master
                    THEN Append(files,
                           [name |-> "dipole_radiation_pattern_nonaxisymmetric.png",
                            content |-> fig])
                    ELSE files

\* ------------------------------------------------------------ the main block
\* line 236
RunPos ==
    /\ pc = "run_pos"
    /\ \E amp \in SimAmplitudes : dipole_in_vacuum(dipole_pos_r, m, amp)
    /\ pc' = "add_e_pos"
    /\ UNCHANGED call_vars
    /\ UNCHANGED <<dipole_pos_r, am_master, e_field_total, h_field_total,
                   flux_max, m, flux, power_decay, stdout,
                   dipole_radiation_pattern,
                   dipole_radiation_pattern_scaled, plotted>>

\* line 237
AddEPos ==
    /\ pc = "add_e_pos"
    /\ heap' = IAdd(e_field_total, e_field)
    /\ pc' = "add_h_pos"
    /\ UNCHANGED call_vars
    /\ UNCHANGED <<dipole_pos_r, am_master, e_field_total, h_field_total,
                   e_field, h_field, flux_max, m, flux, power_decay, sims,
                   stdout, dipole_radiation_pattern,
                   dipole_radiation_pattern_scaled, plotted, files>>

\* lines 238, 240
AddHPos ==
    /\ pc = "add_h_pos"
    /\ heap' = IAdd(h_field_total, h_field)
    /\ pc' = IF m > 0 THEN "run_neg" ELSE "flux"
    /\ UNCHANGED call_vars
    /\ UNCHANGED <<dipole_pos_r, am_master, e_field_total, h_field_total,
                   e_field, h_field, flux_max, m, flux, power_decay, sims,
                   stdout, dipole_radiation_pattern,
                   dipole_radiation_pattern_scaled, plotted, files>>

\* (mutant) the second run of an iteration repeats mode +m
RunNeg_SameSign ==
    /\ pc = "run_neg"
    /\ \E amp \in SimAmplitudes : dipole_in_vacuum(dipole_pos_r, m, amp)
    /\ pc' = "add_e_neg"
    /\ UNCHANGED call_vars
    /\ UNCHANGED <<dipole_pos_r, am_master, e_field_total, h_field_total,
                   flux_max, m, flux, power_decay, stdout,
                   dipole_radiation_pattern,
                   dipole_radiation_pattern_scaled, plotted>>

\* line 241
RunNeg ==
    /\ pc = "run_neg"
    /\ \E amp \in SimAmplitudes : dipole_in_vacuum(dipole_pos_r, 0 - m, amp)
    /\ pc' = "add_e_neg"
    /\ UNCHANGED call_vars
    /\ UNCHANGED <<dipole_pos_r, am_master, e_field_total, h_field_total,
                   flux_max, m, flux, power_decay, stdout,
                   dipole_radiation_pattern,
                   dipole_radiation_pattern_scaled, plotted>>

\* line 242
AddENeg ==
    /\ pc = "add_e_neg"
    /\ heap' = IAdd(e_field_total, e_field)
    /\ pc' = "add_h_neg"
    /\ UNCHANGED call_vars
    /\ UNCHANGED <<dipole_pos_r, am_master, e_field_total, h_field_total,
                   e_field, h_field, flux_max, m, flux, power_decay, sims,
                   stdout, dipole_radiation_pattern,
                   dipole_radiation_pattern_scaled, plotted, files>>

\* (mutant) the electric field is added to the magnetic total
AddHNeg_AddsE ==
    /\ pc = "add_h_neg"
    /\ heap' = IAdd(h_field_total, e_field)
    /\ pc' = "flux"
    /\ UNCHANGED call_vars
    /\ UNCHANGED <<dipole_pos_r, am_master, e_field_total, h_field_total,
                   e_field, h_field, flux_max, m, flux, power_decay, sims,
                   stdout, dipole_radiation_pattern,
                   dipole_radiation_pattern_scaled, plotted, files>>

\* line 243
AddHNeg ==
    /\ pc = "add_h_neg"
    /\ heap' = IAdd(h_field_total, h_field)
    /\ pc' = "flux"
    /\ UNCHANGED call_vars
    /\ UNCHANGED <<dipole_pos_r, am_master, e_field_total, h_field_total,
                   e_field, h_field, flux_max, m, flux, power_decay, sims,
                   stdout, dipole_radiation_pattern,
                   dipole_radiation_pattern_scaled, plotted, files>>

\* (mutant) the flux of the accumulated totals
Flux_OfTotals ==
    /\ pc = "flux"
    /\ flux' = flux_from_farfields(heap[e_field_total], heap[h_field_total])
    /\ pc' = "flux_max"
    /\ UNCHANGED call_vars
    /\ UNCHANGED <<dipole_pos_r, am_master, heap, e_field_total,
                   h_field_total, e_field, h_field, flux_max, m, power_decay,
                   sims, stdout, dipole_radiation_pattern,
                   dipole_radiation_pattern_scaled, plotted, files>>

\* line 245
Flux ==
    /\ pc = "flux"
    /\ flux' = flux_from_farfields(heap[e_field], heap[h_field])
    /\ pc' = "flux_max"
    /\ UNCHANGED call_vars
    /\ UNCHANGED <<dipole_pos_r, am_master, heap, e_field_total,
                   h_field_total, e_field, h_field, flux_max, m, power_decay,
                   sims, stdout, dipole_radiation_pattern,
                   dipole_radiation_pattern_scaled, plotted, files>>

\* (mutant) flux_max follows the last flux
FluxMax_Last ==
    /\ pc = "flux_max"
    /\ flux_max' = flux
    /\ pc' = "power_decay"
    /\ UNCHANGED call_vars
    /\ UNCHANGED <<dipole_pos_r, am_master, heap, e_field_total,
                   h_field_total, e_field, h_field, m, flux, power_decay,
                   sims, stdout, dipole_radiation_pattern,
                   dipole_radiation_pattern_scaled, plotted, files>>

\* lines 246-247
FluxMax ==
    /\ pc = "flux_max"
    /\ flux_max' = IF flux > flux_max THEN flux ELSE flux_max
    /\ pc' = "power_decay"
    /\ UNCHANGED call_vars
    /\ UNCHANGED <<dipole_pos_r, am_master, heap, e_field_total,
                   h_field_total, e_field, h_field, m, flux, power_decay,
                   sims, stdout, dipole_radiation_pattern,
                   dipole_radiation_pattern_scaled, plotted, files>>

\* lines 248-249
PowerDecay ==
    /\ pc = "power_decay"
    /\ power_decay' = <<flux, flux_max>>
    /\ stdout' = Append(stdout, [m |-> m, flux |-> flux,
                                 flux_max |-> flux_max,
                                 power_decay |-> power_decay'])
    /\ pc' = "test"
    /\ UNCHANGED call_vars
    /\ UNCHANGED <<dipole_pos_r, am_master, heap, e_field_total,
                   h_field_total, e_field, h_field, flux_max, m, flux, sims,
                   dipole_radiation_pattern,
                   dipole_radiation_pattern_scaled, plotted, files>>

\* (mutant) "<=" in the place of "<"
Converged_Le ==
    /\ m > 0
    /\ power_decay[2] > 0
    /\ power_decay[1] <= (POWER_DECAY_THRESHOLD_NUM * power_decay[2])
                            \div POWER_DECAY_THRESHOLD_DEN

\* line 251: the condition of the break
Converged ==
    m > 0 /\ RatioLess(power_decay, POWER_DECAY_THRESHOLD_NUM,
                       POWER_DECAY_THRESHOLD_DEN)

\* (mutant) the loop also stops after the second iteration
Test_ModeCap ==
    /\ pc = "test"
    /\ IF Converged \/ m >= 1
       THEN pc' = "pattern" /\ m' = m
       ELSE m < MaxM /\ m' = m + 1 /\ pc' = "run_pos"
    /\ UNCHANGED call_vars
    /\ UNCHANGED <<dipole_pos_r, am_master, heap, e_field_total,
                   h_field_total, e_field, h_field, flux_max, flux,
                   power_decay, sims, stdout, dipole_radiation_pattern,
                   dipole_radiation_pattern_scaled, plotted, files>>

\* lines 251-254
Test ==
    /\ pc = "test"
    /\ IF Converged
       THEN pc' = "pattern" /\ m' = m
       ELSE m < MaxM /\ m' = m + 1 /\ pc' = "run_pos"
    /\ UNCHANGED call_vars
    /\ UNCHANGED <<dipole_pos_r, am_master, heap, e_field_total,
                   h_field_total, e_field, h_field, flux_max, flux,
                   power_decay, sims, stdout, dipole_radiation_pattern,
                   dipole_radiation_pattern_scaled, plotted, files>>

\* (mutant) the pattern of the last run, not of the totals
Pattern_LastRun ==
    /\ pc = "pattern"
    /\ dipole_radiation_pattern' =
           radiation_pattern(heap[e_field], heap[h_field])
    /\ pc' = "scale"
    /\ UNCHANGED call_vars
    /\ UNCHANGED <<dipole_pos_r, am_master, heap, e_field_total,
                   h_field_total, e_field, h_field, flux_max, m, flux,
                   power_decay, sims, stdout,
                   dipole_radiation_pattern_scaled, plotted, files>>

\* lines 256-258
Pattern ==
    /\ pc = "pattern"
    /\ dipole_radiation_pattern' =
           radiation_pattern(heap[e_field_total], heap[h_field_total])
    /\ pc' = "scale"
    /\ UNCHANGED call_vars
    /\ UNCHANGED <<dipole_pos_r, am_master, heap, e_field_total,
                   h_field_total, e_field, h_field, flux_max, m, flux,
                   power_decay, sims, stdout,
                   dipole_radiation_pattern_scaled, plotted, files>>

\* lines 259-261
Scale ==
    /\ pc = "scale"
    /\ dipole_radiation_pattern_scaled' =
           [n \in Points |-> dipole_radiation_pattern[n]
                               * FARFIELD_RADIUS_UM * FARFIELD_RADIUS_UM]
    /\ pc' = "plot"
    /\ UNCHANGED call_vars
    /\ UNCHANGED <<dipole_pos_r, am_master, heap, e_field_total,
                   h_field_total, e_field, h_field, flux_max, m, flux,
                   power_decay, sims, stdout, dipole_radiation_pattern,
                   plotted, files>>

\* line 262
Plot ==
    /\ pc = "plot"
    /\ plot_radiation_pattern(dipole_radiation_pattern_scaled)
    /\ pc' = "save"
    /\ UNCHANGED call_vars
    /\ UNCHANGED <<dipole_pos_r, am_master, heap, e_field_total,
                   h_field_total, e_field, h_field, flux_max, m, flux,
                   power_decay, sims, stdout, dipole_radiation_pattern,
                   dipole_radiation_pattern_scaled>>

\* lines 264-278
Save ==
    /\ pc = "save"
    /\ files' = IF am_master
                THEN Append(files,
                       [name |-> "dipole_farfields_nonaxisymmetric.npz",
                        content |->
                          [dipole_pos_r |-> dipole_pos_r,
                           dipole_radiation_pattern |->
                               dipole_radiation_pattern,
                           e_field_total |-> heap[e_field_total],
                           h_field_total |-> heap[h_field_total],
                           m |-> m]])
                ELSE files
    /\ pc' = "done"
    /\ UNCHANGED call_vars
    /\ UNCHANGED <<dipole_pos_r, am_master, heap, e_field_total,
                   h_field_total, e_field, h_field, flux_max, m, flux,
                   power_decay, sims, stdout, dipole_radiation_pattern,
                   dipole_radiation_pattern_scaled, plotted>>

Next ==
    \/ RunPos
    \/ AddEPos
    \/ AddHPos
    \/ RunNeg
    \/ AddENeg
    \/ AddHNeg
    \/ Flux
    \/ FluxMax
    \/ PowerDecay
    \/ Test
    \/ Pattern
    \/ Scale
    \/ Plot
    \/ Save

Spec == Init /\ [][Next]_vars

\* The interpreter keeps executing the script and every solver run returns.
FairSpec == Spec /\ WF_vars(Next)


\* ------------------------------------------- radiation_pattern on its own
\* The number of rows of the arrays radiation_pattern is applied to here.
NumRows == 2

Rows == 0 .. (NumRows - 1)

\* rows (Er, Ep, Ez) and (Hr, Hp, Hz) the arguments are made of
ERows == { <<CZero, CZero, CZero>>,
           <<<<4, 0>>, CZero, <<-3, 0>>>>,
           <<<<1, 1>>, <<2, 0>>, <<-1, 0>>>>,
           <<<<3, 0>>, <<1, -1>>, <<0, 4>>>>,
           <<CZero, <<0, 1>>, <<2, 0>>>> }

HRows == { <<CZero, CZero, CZero>>,
           <<CZero, <<1, 0>>, CZero>>,
           <<<<1, 0>>, <<1, -1>>, CZero>>,
           <<<<0, -1>>, <<2, 0>>, <<1, 1>>>>,
           <<CZero, <<1, 0>>, <<3, 0>>>>,
           <<<<2, 0>>, <<-1, 0>>, <<0, 1>>>> }

InitCall ==
    /\ pc = "call"
    /\ MainInit(1, TRUE)
    /\ arg_e_field \in [Rows -> ERows]
    /\ arg_h_field \in [Rows -> HRows]
    /\ flux_r = Unbound

CallRadiationPattern ==
    /\ pc = "call"
    /\ flux_r' = radiation_pattern(arg_e_field, arg_h_field)
    /\ pc' = "return"
    /\ UNCHANGED <<dipole_pos_r, am_master, heap, e_field_total,
                   h_field_total, e_field, h_field, flux_max, m, flux,
                   power_decay, sims, stdout, dipole_radiation_pattern,
                   dipole_radiation_pattern_scaled, plotted, files,
                   arg_e_field, arg_h_field>>

NextCall == CallRadiationPattern

SpecCall == InitCall /\ [][NextCall]_vars

\* ================================================================ claims

\* the real part of the product of two complex numbers, written out
ReProd(a, b) == a[1] * b[1] - a[2] * b[2]

\* the flux components of row n of (e, h), written out from the claim
RowFluxX(e, h, n) == ReProd(e[n][2], h[n][3]) - ReProd(e[n][3], h[n][2])
RowFluxZ(e, h, n) == ReProd(e[n][1], h[n][2]) - ReProd(e[n][2], h[n][1])

\* r is the non-negative grid value of the square root of x: its square is x
\* when x is a square, and otherwise no grid value is nearer to the root.
IsRootOf(r, x) ==
    /\ r >= 0
    /\ (r = 0 \/ (2 * r - 1) * (2 * r - 1) <= 4 * x)
    /\ 4 * x <= (2 * r + 1) * (2 * r + 1)
    /\ (\E q \in 0..x : q * q = x) => r * r = x

\* C7: radiation_pattern returns one element per row; element n is the
\* non-negative root of flux_x^2 + flux_z^2 with
\* flux_x = Re(E_phi H_z - E_z H_phi) and flux_z = Re(E_r H_phi - E_phi H_r)
\* of row n, whatever the other rows hold.
C7_RadiationPattern ==
    pc = "return" =>
        /\ DOMAIN flux_r = Rows
        /\ \A n \in Rows :
              LET fx == RowFluxX(arg_e_field, arg_h_field, n)
                  fz == RowFluxZ(arg_e_field, arg_h_field, n)
              IN  IsRootOf(flux_r[n], fx * fx + fz * fz)

\* a call whose rows differ, with both flux components of a row non-zero
C7_Witness ==
    /\ pc = "return"
    /\ RowFluxX(arg_e_field, arg_h_field, 0) < 0
    /\ RowFluxZ(arg_e_field, arg_h_field, 0) > 0
    /\ flux_r[0] * flux_r[0] # RowFluxX(arg_e_field, arg_h_field, 0)
                                 * RowFluxX(arg_e_field, arg_h_field, 0)
                               + RowFluxZ(arg_e_field, arg_h_field, 0)
                                 * RowFluxZ(arg_e_field, arg_h_field, 0)
    /\ flux_r[1] = 5
    /\ arg_e_field[0] # arg_e_field[1]


\* ------------------------------------------------------- the main block
\* the statements after the loop
Post == {"pattern", "scale", "plot", "save", "done"}

\* the statements of an iteration after its last solver run was added
EndOfIteration == {"flux", "flux_max", "power_decay", "test"}

\* f / fm is a number strictly below POWER_DECAY_THRESHOLD, i.e.
\* f * DEN < NUM * fm with fm > 0, written without the product f * DEN
BelowThreshold(f, fm) ==
    LET t == POWER_DECAY_THRESHOLD_NUM * fm
        q == t \div POWER_DECAY_THRESHOLD_DEN
        r == t % POWER_DECAY_THRESHOLD_DEN
    IN  fm > 0 /\ (f < q \/ (f = q /\ r > 0))

\* the number of iterations whose "power_decay:" line is printed
Printed == Len(stdout)

\* C1: the loop exits at the first m >= 1 whose power_decay = flux /
\* flux_max is strictly below POWER_DECAY_THRESHOLD and never at m = 0; the
\* test was false in every earlier iteration and m went up by exactly 1 each
\* time.
C1_ExitAtFirstDecay ==
    /\ \A i \in 1 .. Printed :
          /\ stdout[i].m = i - 1
          /\ stdout[i].power_decay = <<stdout[i].flux, stdout[i].flux_max>>
    /\ Printed = IF pc \in Post \cup {"test"} THEN m + 1 ELSE m
    /\ \A i \in 1 .. m :
          ~ (stdout[i].m >= 1
               /\ BelowThreshold(stdout[i].flux, stdout[i].flux_max))
    /\ pc \in Post =>
          /\ m >= 1
          /\ BelowThreshold(stdout[m + 1].flux, stdout[m + 1].flux_max)

\* the loop has exited at m = 2 after an iteration m = 1 whose power_decay
\* was exactly the threshold
C1_Witness ==
    /\ pc = "pattern"
    /\ m = 2
    /\ stdout[2].flux > 0
    /\ stdout[2].flux_max % POWER_DECAY_THRESHOLD_DEN = 0
    /\ stdout[2].flux_max \div POWER_DECAY_THRESHOLD_DEN = stdout[2].flux

\* the mode of the i-th solver run in the order 0, +1, -1, +2, -2, ...
ModeAt(i) == IF i % 2 = 0 THEN i \div 2 ELSE 0 - (i \div 2)

\* C2: the solver runs are for the modes 0, +1, -1, +2, -2, ... in this
\* order, all with the same dipole_pos_r; when the loop has exited with m = M
\* there were exactly 2M+1 runs, one for every mode in -M..M.
C2_OneRunPerMode ==
    /\ \A i \in 1 .. Len(sims) :
          /\ sims[i].sim.m = ModeAt(i)
          /\ sims[i].sim.dipole_pos_r = dipole_pos_r
    /\ Len(sims) <= 2 * m + 1
    /\ pc \in Post =>
          /\ Len(sims) = 2 * m + 1
          /\ \A k \in (0 - m) .. m :
                Cardinality({i \in 1 .. Len(sims) : sims[i].sim.m = k}) = 1

\* the loop has exited with m = 2 after five runs
C2_Witness ==
    /\ pc = "done"
    /\ m = 2
    /\ Len(sims) = 5
    /\ sims[5].sim.m = 0 - 2

\* component c of column j of row n of the sum of the first i returned
\* electric (magnetic) fields
RECURSIVE SumE(_, _, _, _)
SumE(i, n, j, c) ==
    IF i = 0 THEN 0 ELSE sims[i].e_field[n][j][c] + SumE(i - 1, n, j, c)

RECURSIVE SumH(_, _, _, _)
SumH(i, n, j, c) ==
    IF i = 0 THEN 0 ELSE sims[i].h_field[n][j][c] + SumH(i - 1, n, j, c)

TotalsAreSumsOf(i) ==
    \A n \in Points, j \in 1 .. 3, c \in 1 .. 2 :
        /\ heap[e_field_total][n][j][c] = SumE(i, n, j, c)
        /\ heap[h_field_total][n][j][c] = SumH(i, n, j, c)

\* C3: at the end of the iteration with index m the totals are the
\* element-wise sums of the fields returned by the runs for the modes -m..m,
\* each added once; before the first run both totals are all-zero.
C3_TotalsAreSums ==
    /\ Len(sims) = 0 => TotalsAreSumsOf(0)
    /\ pc \in EndOfIteration =>
          /\ Len(sims) = 2 * m + 1
          /\ {sims[i].sim.m : i \in 1 .. Len(sims)} = (0 - m) .. m
          /\ TotalsAreSumsOf(2 * m + 1)

\* the end of iteration 2, the five runs having returned different fields
C3_Witness ==
    /\ pc = "test"
    /\ m = 2
    /\ sims[1].sim.amp = 200
    /\ sims[4].sim.amp = 2
    /\ sims[5].sim.amp = 1
    /\ heap[e_field_total] # heap[h_field_total]

\* the states of the output stage: it runs once, after the loop has exited at
\* m; what is plotted is radiation_pattern of the totals times
\* FARFIELD_RADIUS_UM**2, and what is saved is that pattern, the totals of the
\* modes -m..m and m.
C4_OutputState ==
    LET pattern == radiation_pattern(heap[e_field_total],
                                     heap[h_field_total])
        scaled  == [n \in Points |->
                       pattern[n] * FARFIELD_RADIUS_UM * FARFIELD_RADIUS_UM]
        npz     == {i \in 1 .. Len(files) :
                       files[i].name = "dipole_farfields_nonaxisymmetric.npz"}
    IN  /\ Len(plotted) = IF pc \in {"save", "done"} THEN 1 ELSE 0
        /\ Cardinality(npz) = IF pc = "done" /\ am_master THEN 1 ELSE 0
        /\ pc \in Post =>
              /\ m >= 1
              /\ BelowThreshold(stdout[m + 1].flux, stdout[m + 1].flux_max)
              /\ Len(sims) = 2 * m + 1
              /\ TotalsAreSumsOf(2 * m + 1)
        /\ pc \in {"save", "done"} =>
              \A n \in Points :
                  plotted[1].Meep[n] = <<scaled[n], ArrMax(scaled)>>
        /\ \A i \in npz :
              /\ files[i].content.m = m
              /\ files[i].content.dipole_radiation_pattern = pattern
              /\ files[i].content.e_field_total = heap[e_field_total]
              /\ files[i].content.h_field_total = heap[h_field_total]

\* a step after the exit of the loop changes neither the totals nor m
C4_OutputStep ==
    pc \in Post =>
        /\ heap'[e_field_total'] = heap[e_field_total]
        /\ heap'[h_field_total'] = heap[h_field_total]
        /\ m' = m
        /\ pc' \in Post

\* C4: the output stage runs exactly once and only after the loop has exited;
\* what is plotted and saved is radiation_pattern of the accumulated totals,
\* the totals do not change after the exit, and the saved m is the index at
\* which the criterion was met.
C4_OutputOnceAfterLoop == []C4_OutputState /\ [][C4_OutputStep]_vars

\* the master has saved the output of a run that exited at m = 2 with
\* totals that differ from the fields of the last run
C4_Witness ==
    /\ pc = "done"
    /\ am_master
    /\ m = 2
    /\ files[Len(files)].content.m = 2
    /\ plotted[1].Meep[0][1] > 0
    /\ heap[e_field_total] # heap[e_field]


\* the arrays that exist: the two totals and the arrays returned so far
Addresses == 1 .. Len(heap)

\* every array a solver run returned still holds what it held on return,
\* and it is an array of its own: not one of the totals, not the other array
\* of its run, not an array of another run
C5_ReturnedArraysKept ==
    /\ e_field_total # h_field_total
    /\ \A i \in 1 .. Len(sims) :
          /\ heap[sims[i].e_addr] = sims[i].e_field
          /\ heap[sims[i].h_addr] = sims[i].h_field
          /\ sims[i].e_addr # sims[i].h_addr
          /\ {sims[i].e_addr, sims[i].h_addr}
                \cap {e_field_total, h_field_total} = {}
          /\ \A k \in 1 .. Len(sims) :
                k # i => {sims[i].e_addr, sims[i].h_addr}
                           \cap {sims[k].e_addr, sims[k].h_addr} = {}

\* what a step of the main block leaves alone: a step that only calls
\* flux_from_farfields, radiation_pattern or plot_radiation_pattern changes
\* no array and none of e_field_total, h_field_total, flux_max, m; a call of
\* dipole_in_vacuum changes no array that exists and none of these names; an
\* addition to a total changes the array of that total only.
C5_HelperStep ==
    /\ pc \in {"flux", "pattern", "scale", "plot", "save"} =>
          UNCHANGED <<heap, e_field_total, h_field_total, flux_max, m>>
    /\ pc \in {"run_pos", "run_neg"} =>
          /\ UNCHANGED <<e_field_total, h_field_total, flux_max, m>>
          /\ \A a \in Addresses : heap'[a] = heap[a]
    /\ pc \in {"add_e_pos", "add_e_neg"} =>
          \A a \in Addresses \ {e_field_total} : heap'[a] = heap[a]
    /\ pc \in {"add_h_pos", "add_h_neg"} =>
          \A a \in Addresses \ {h_field_total} : heap'[a] = heap[a]

\* C5: the helper functions and dipole_in_vacuum leave e_field_total,
\* h_field_total, flux_max and m unchanged and do not modify the arrays
\* passed to them; every solver run returns newly allocated arrays, so that
\* adding a returned array to a total changes neither an array returned
\* earlier nor the other total.
C5_HelpersStateless == []C5_ReturnedArraysKept /\ [][C5_HelperStep]_vars

\* the fields of the third run have been added to the totals while the
\* arrays of three runs with different results exist
C5_Witness ==
    /\ pc = "flux"
    /\ Len(sims) = 3
    /\ sims[1].sim.amp = 200
    /\ sims[2].sim.amp = 2
    /\ sims[3].sim.amp = 1
    /\ heap[e_field_total] # Zeros

\* a has NUM_FARFIELD_PTS rows of 3 columns
IsFieldArray(a) ==
    /\ DOMAIN a = Points
    /\ \A n \in Points : DOMAIN a[n] = 1 .. 3

LastRunOf(k) == sims[2 * k + 1]

\* C8: the flux of iteration m is flux_from_farfields of the fields returned
\* by the one run for mode -m (mode 0 at m = 0), whatever the run for +m
\* returned and whatever the totals hold; the flux_max update and the exit
\* decision of the iteration follow from that flux and the earlier flux_max.
C8_FluxOfLastRun ==
    /\ \A i \in 1 .. Printed :
          LET run  == LastRunOf(i - 1)
              f    == flux_from_farfields(run.e_field, run.h_field)
              prev == IF i = 1 THEN 0 ELSE stdout[i - 1].flux_max
          IN  /\ run.sim.m = 0 - (i - 1)
              /\ stdout[i].flux = f
              /\ stdout[i].flux_max = Max2(prev, f)
              /\ (pc # "test" \/ i < Printed) =>
                    (i <= m) = ~ (i > 1 /\ BelowThreshold(f, Max2(prev, f)))
    /\ pc \in {"flux_max", "power_decay", "test"} =>
          /\ LastRunOf(m).sim.m = 0 - m
          /\ flux = flux_from_farfields(LastRunOf(m).e_field,
                                        LastRunOf(m).h_field)

\* the flux of iteration 1 is computed although the run for +1 returned
\* strong fields and the run for -1 weak ones
C8_Witness ==
    /\ pc = "test"
    /\ m = 1
    /\ sims[1].sim.amp = 1
    /\ sims[2].sim.amp = 200
    /\ sims[3].sim.amp = 2
    /\ flux > 0
    /\ flux_max = flux

\* the maximum of 0 and the fluxes printed in the first i iterations
RECURSIVE RunningMax(_)
RunningMax(i) ==
    IF i = 0 THEN 0 ELSE Max2(RunningMax(i - 1), stdout[i].flux)

\* every printed line: 0 <= flux <= flux_max, flux_max is the running
\* maximum, power_decay = flux / flux_max lies in [0, 1] when flux_max > 0
\* and is 1 when the iteration set a new maximum
C9_RunningMaxState ==
    /\ flux_max >= 0
    /\ pc \in {"power_decay", "test"} =>
          /\ 0 <= flux
          /\ flux <= flux_max
          /\ flux_max = Max2(RunningMax(m), flux)
    /\ \A i \in 1 .. Printed :
          LET l    == stdout[i]
              prev == IF i = 1 THEN 0 ELSE stdout[i - 1].flux_max
          IN  /\ 0 <= l.flux
              /\ l.flux <= l.flux_max
              /\ l.flux_max = RunningMax(i)
              /\ prev <= l.flux_max
              /\ l.power_decay = <<l.flux, l.flux_max>>
              /\ l.flux_max > 0 =>
                    /\ 0 <= l.power_decay[1]
                    /\ l.power_decay[1] <= l.power_decay[2]
              /\ l.flux > prev =>
                    /\ l.power_decay[2] > 0
                    /\ l.power_decay[1] = l.power_decay[2]

C10_OnlyExit ==
    pc \in Post =>
        /\ m >= 1
        /\ Printed = m + 1
        /\ BelowThreshold(stdout[m + 1].flux, stdout[m + 1].flux_max)

\* the test of iteration m >= 1 is reached with the criterion met
C10_Met ==
    pc = "test" /\ m >= 1 /\ BelowThreshold(flux, flux_max)

\* the test of an iteration is reached with the criterion not met: m = 0, or
\* a power_decay not below the threshold, or an undefined one (flux_max = 0)
C10_NotMet ==
    pc = "test" /\ ~ (m >= 1 /\ BelowThreshold(flux, flux_max))

\* the step after the test: to the output stage when the criterion is met,
\* else to the solver run of mode m + 1; no step leads back from the output
\* stage into the loop
C10_TestStep ==
    /\ C10_Met => pc' = "pattern" /\ m' = m
    /\ C10_NotMet => pc' = "run_pos" /\ m' = m + 1
    /\ pc \in Post => pc' \in Post

\* C10: the loop ends and the output stage is reached if and only if some
\* iteration m >= 1 has a flux strictly below POWER_DECAY_THRESHOLD times
\* flux_max: the output is never produced otherwise, the test of an iteration
\* that meets the criterion is followed by the output stage, which is carried
\* out to its end, and the test of an iteration that does not meet it (also
\* one with flux_max still 0) is followed by the solver run of the next
\* mode, which returns.  (Iterations up to MaxM.)
C10_TerminatesIffDecay ==
    /\ []C10_OnlyExit
    /\ [][C10_TestStep]_vars
    /\ (C10_Met \/ (C10_NotMet /\ m < MaxM))
          ~> (pc = "done" \/ pc = "add_e_pos")

\* the output is done after an iteration 0 with an undefined power_decay
\* (flux_max still 0), an iteration 1 that did not meet the criterion and an
\* iteration 2 that met it
C10_Witness ==
    /\ pc = "done"
    /\ m = 2
    /\ stdout[1].flux_max = 0
    /\ stdout[2].flux_max > 0
    /\ stdout[3].flux > 0

====
